---- MODULE Spec2Model ----
(***************************************************************************)
(* PSDocumentFormattingEditProvider (src/features/DocumentFormatter.ts):   *)
(* the rule scheduler (executeRulesInOrder), the sort-and-filter of a      *)
(* marker batch, and the edit applicator (applyEdit), as a state machine   *)
(* whose steps are the provider's entry points and promise callbacks.      *)
(*                                                                         *)
(* Rule indices and marker indices are 0-based as in the source; TLA+      *)
(* sequences are 1-based, so markers[i] of the source is markers[i + 1].   *)
(***************************************************************************)
EXTENDS Integers, Sequences, FiniteSets

VARIABLES
    languageClient,     \* this.languageClient: "undefined" | "null" | "client"
    aggregateUndoStop,  \* this.aggregateUndoStop
    activeTextEditor,   \* Window.activeTextEditor: "doc" | "other" | "none"
    pc,                 \* where the run is: "idle" | "request" | "edit" | "then"
                        \*                 | "done" | "failed" | "threw"
    index,              \* the index argument of the current executeRulesInOrder
    response,           \* result.markers as the service returned it
    markers,            \* markers, after the in-place sort
    uniqueMarkers,      \* uniqueMarkers
    markerIndex,        \* the markerIndex argument of the current applyEdit
    passEdits,          \* the markers whose edit was issued in the current pass
    editedEditor,       \* the editor the last edit call was made on ("none": no call yet)
    editApplied,        \* isEditApplied of the last completed edit call of the pass
    cancelled,          \* token.isCancellationRequested
    result,             \* what the caller of provideDocumentFormattingEdits got
    failure,            \* why the run failed: "none" | "request" | "edit" | "TypeError"
    passLog,            \* history: one record per marker request of the run
    editLog             \* history: one record per editor.edit call of the run

envVars == <<languageClient, aggregateUndoStop, activeTextEditor, cancelled>>
passVars == <<response, markers, uniqueMarkers, markerIndex, passEdits,
              editedEditor, editApplied>>
vars == <<languageClient, aggregateUndoStop, activeTextEditor, pc, index,
          response, markers, uniqueMarkers, markerIndex, passEdits,
          editedEditor, editApplied, cancelled,
          result, failure, passLog, editLog>>

----------------------------------------------------------------------------
(* Bounds of the model *)

MaxLine == 2
MaxBatch == 3
MaxPasses == 3

MaxColumn == 2
MaxRegionBatch == 2

Lines == 1 .. MaxLine
Columns == 1 .. MaxColumn

\* A ScriptRegion that lies on one line.
LineRegion(l) ==
    [startLineNumber |-> l, startColumnNumber |-> 1,
     endLineNumber |-> l, endColumnNumber |-> MaxColumn]

\* The marker batches the service may return, each marker's edits[0] on one
\* line: every sequence of such regions of length at most MaxBatch.
Batches == UNION {[1 .. n -> {LineRegion(l) : l \in Lines}] : n \in 0 .. MaxBatch}

\* Every ScriptRegion with start <= end, line-major then column.
Regions ==
    {r \in [startLineNumber : Lines, startColumnNumber : Columns,
            endLineNumber : Lines, endColumnNumber : Columns] :
        \/ r.startLineNumber < r.endLineNumber
        \/ /\ r.startLineNumber = r.endLineNumber
           /\ r.startColumnNumber <= r.endColumnNumber}

\* The marker batches whose regions may span lines, of length at most
\* MaxRegionBatch.
RegionBatches == UNION {[1 .. n -> Regions] : n \in 0 .. MaxRegionBatch}

----------------------------------------------------------------------------
(* Program constants and pure functions *)

ruleOrder == <<"PSPlaceCloseBrace", "PSPlaceOpenBrace", "PSUseConsistentIndentation">>

\* `TextEdit[0]`: the property named 0 of the TextEdit class, which has none.
TextEdit0 == "undefined"

\* An empty TextEdit array, the value the entry point is documented to give.
EmptyList == "[]"

\* The markers of the service for a batch of regions: id is the marker's
\* position in the returned batch, the other fields are correction.edits[0].
ScriptFileMarkers(batch) ==
    [i \in 1 .. Len(batch) |->
        [id |-> i,
         startLineNumber |-> batch[i].startLineNumber,
         startColumnNumber |-> batch[i].startColumnNumber,
         endLineNumber |-> batch[i].endLineNumber,
         endColumnNumber |-> batch[i].endColumnNumber]]

\* new vscode.Range(...) of applyEdit: the 0-based span the edit replaces.
Range(edit) ==
    [start |-> [line |-> edit.startLineNumber - 1,
                character |-> edit.startColumnNumber - 1],
     end |-> [line |-> edit.endLineNumber - 1,
              character |-> edit.endColumnNumber - 1]]

\* Mutant of Compare: the two results swapped, an ascending sort.
Compare_Ascending(a, b) ==
    LET leftOperand == a.startLineNumber
        rightOperand == b.startLineNumber
    IN  IF leftOperand < rightOperand THEN -1
        ELSE IF leftOperand > rightOperand THEN 1
        ELSE 0

\* The comparator handed to markers.sort.
Compare(a, b) ==
    LET leftOperand == a.startLineNumber
        rightOperand == b.startLineNumber
    IN  IF leftOperand < rightOperand THEN 1
        ELSE IF leftOperand > rightOperand THEN -1
        ELSE 0

\* Mutant of Insert: a marker is placed before the markers that compare
\* equal to it, so markers of one line come out in reverse order of arrival.
RECURSIVE Insert_Unstable(_, _)
Insert_Unstable(sorted, x) ==
    IF sorted = <<>> THEN <<x>>
    ELSE IF Compare(Head(sorted), x) < 0
         THEN <<Head(sorted)>> \o Insert_Unstable(Tail(sorted), x)
         ELSE <<x>> \o sorted

\* Array.prototype.sort with that comparator: a stable sort, here by insertion.
RECURSIVE Insert(_, _)
Insert(sorted, x) ==
    IF sorted = <<>> THEN <<x>>
    ELSE IF Compare(Head(sorted), x) <= 0
         THEN <<Head(sorted)>> \o Insert(Tail(sorted), x)
         ELSE <<x>> \o sorted

RECURSIVE Sort(_)
Sort(s) ==
    IF s = <<>> THEN <<>>
    ELSE Insert(Sort(SubSeq(s, 1, Len(s) - 1)), s[Len(s)])

\* Mutant of FilterLoop: every marker is pushed.
FilterLoop_KeepAll(rest, unique) == unique \o rest

\* The loop over markers.slice(1): push a marker when its starting line
\* differs from that of the last marker pushed.
RECURSIVE FilterLoop(_, _)
FilterLoop(rest, unique) ==
    IF rest = <<>> THEN unique
    ELSE FilterLoop(Tail(rest),
            IF Head(rest).startLineNumber # unique[Len(unique)].startLineNumber
            THEN Append(unique, Head(rest))
            ELSE unique)

\* Mutant of Filter: the walk starts one marker late, so the first marker of
\* the sorted batch is lost.
Filter_DropFirst(sorted) ==
    IF Len(sorted) > 1 THEN FilterLoop(Tail(Tail(sorted)), <<sorted[2]>>) ELSE <<>>

Filter(sorted) ==
    IF Len(sorted) > 0 THEN FilterLoop(Tail(sorted), <<sorted[1]>>) ELSE <<>>

UndoStopAfter(aggregate, ruleIndex, mIndex, length) ==
    ~aggregate \/ (ruleIndex = Len(ruleOrder) - 1 /\ mIndex = length - 1)

\* Mutant of UndoStopBefore: the first edit of every pass opens an undo stop.
UndoStopBefore_EveryPass(aggregate, ruleIndex, mIndex) ==
    ~aggregate \/ mIndex = 0

UndoStopBefore(aggregate, ruleIndex, mIndex) ==
    ~aggregate \/ (ruleIndex = 0 /\ mIndex = 0)

\* Mutant of NextIndex: the two branches swapped.
NextIndex_Inverted(idx, unique, all) ==
    IF Len(unique) # Len(all) THEN idx + 1 ELSE idx

\* Mutant of NextIndex: the same rule is always run again.
NextIndex_Same(idx, unique, all) == idx

\* The index the second then-callback re-invokes executeRulesInOrder with.
NextIndex(idx, unique, all) ==
    IF Len(unique) # Len(all) THEN idx ELSE idx + 1

----------------------------------------------------------------------------
(* Initial state: the provider as DocumentFormatterFeature constructs it *)

Init ==
    /\ languageClient = "undefined"
    /\ aggregateUndoStop = TRUE
    /\ activeTextEditor = "doc"
    /\ pc = "idle"
    /\ index = 0
    /\ response = <<>>
    /\ markers = <<>>
    /\ uniqueMarkers = <<>>
    /\ markerIndex = 0
    /\ passEdits = <<>>
    /\ editedEditor = "none"
    /\ editApplied = TRUE
    /\ cancelled = FALSE
    /\ result = "none"
    /\ failure = "none"
    /\ passLog = <<>>
    /\ editLog = <<>>

----------------------------------------------------------------------------
(* Steps.  `track` says what a step records beside the program's state.    *)
(* With track the history of the run is written (passLog, editLog), bounded *)
(* by MaxPasses requests per run, and the token is not cancelled; without   *)
(* it the detail of the edit calls of the current pass is written instead   *)
(* (editedEditor, editApplied), and the run is not bounded.  The program    *)
(* reads none of these four variables, nor the token.                       *)

\* executeRulesInOrder(document, options, idx), called from the entry point
\* (inThen = FALSE) or from the second then-callback (inThen = TRUE).
ExecuteRulesInOrder(idx, inThen, track) ==
    IF languageClient # "null" /\ idx < Len(ruleOrder)
    THEN IF languageClient = "undefined"
         THEN \* this.languageClient.sendRequest on undefined: a TypeError
              /\ pc' = IF inThen THEN "failed" ELSE "threw"
              /\ result' = IF inThen THEN "rejected" ELSE "TypeError"
              /\ failure' = "TypeError"
              /\ UNCHANGED <<index, passLog>>
              /\ UNCHANGED passVars
         ELSE /\ track => Len(passLog) < MaxPasses
              /\ pc' = "request"
              /\ index' = idx
              /\ result' = "promise"
              /\ response' = <<>>
              /\ markers' = <<>>
              /\ uniqueMarkers' = <<>>
              /\ markerIndex' = 0
              /\ passEdits' = <<>>
              /\ editedEditor' = "none"
              /\ editApplied' = TRUE
              /\ passLog' = IF track
                            THEN Append(passLog, [rule |-> idx, answered |-> FALSE,
                                                  total |-> 0, kept |-> 0, edits |-> 0])
                            ELSE passLog
              /\ UNCHANGED failure
    ELSE /\ pc' = "done"
         /\ index' = idx
         /\ result' = TextEdit0
         /\ UNCHANGED <<failure, passLog>>
         /\ UNCHANGED passVars

\* applyEdit(unique, mIndex, index), called from the first then-callback or
\* from the callback of the previous edit.
ApplyEdit(unique, mIndex, track) ==
    IF mIndex >= Len(unique)
    THEN /\ pc' = "then"
         /\ UNCHANGED <<passEdits, editedEditor, editLog, result, failure>>
    ELSE IF activeTextEditor = "none"
         THEN \* Window.activeTextEditor.edit on undefined: a TypeError
              /\ pc' = "failed"
              /\ result' = "rejected"
              /\ failure' = "TypeError"
              /\ UNCHANGED <<passEdits, editedEditor, editLog>>
         ELSE /\ pc' = "edit"
              /\ passEdits' = Append(passEdits, unique[mIndex + 1])
              /\ editedEditor' = IF track THEN editedEditor ELSE activeTextEditor
              /\ editLog' = IF track
                            THEN Append(editLog,
                                   [rule |-> index,
                                    undoStopBefore |->
                                        UndoStopBefore(aggregateUndoStop, index, mIndex),
                                    undoStopAfter |->
                                        UndoStopAfter(aggregateUndoStop, index, mIndex,
                                                      Len(unique))])
                            ELSE editLog
              /\ UNCHANGED <<result, failure>>

\* setLanguageClient(c).  The model follows one run: the call is taken
\* before the run and at its suspension points (a pending request or edit
\* call), not between two callbacks of one promise chain nor after the run.
SetLanguageClient(c) ==
    /\ pc \in {"idle", "request", "edit"}
    /\ languageClient' = c
    /\ UNCHANGED <<aggregateUndoStop, activeTextEditor, cancelled, pc, index,
                   result, failure, passLog, editLog>>
    /\ UNCHANGED passVars

\* The user makes another editor, or none, the active one.
SwitchEditor(e) ==
    /\ pc \in {"idle", "request", "edit"}
    /\ e # activeTextEditor
    /\ activeTextEditor' = e
    /\ UNCHANGED <<languageClient, aggregateUndoStop, cancelled, pc, index,
                   result, failure, passLog, editLog>>
    /\ UNCHANGED passVars

\* The caller cancels the token it passed to provideDocumentFormattingEdits.
Cancel ==
    /\ pc \in {"request", "edit"}
    /\ ~cancelled
    /\ cancelled' = TRUE
    /\ UNCHANGED <<languageClient, aggregateUndoStop, activeTextEditor, pc, index,
                   result, failure, passLog, editLog>>
    /\ UNCHANGED passVars

\* provideDocumentFormattingEdits(document, options, token)
ProvideDocumentFormattingEdits(track) ==
    /\ pc = "idle"
    /\ ExecuteRulesInOrder(0, FALSE, track)
    /\ UNCHANGED editLog
    /\ UNCHANGED envVars

\* The first then-callback: the service answered the request with `batch`.
Response(batch, track) ==
    /\ pc = "request"
    /\ LET sorted == Sort(ScriptFileMarkers(batch))
           unique == Filter(sorted)
       IN  /\ response' = ScriptFileMarkers(batch)
           /\ markers' = sorted
           /\ uniqueMarkers' = unique
           /\ markerIndex' = 0
           /\ passLog' = IF track
                         THEN [passLog EXCEPT ![Len(passLog)] =
                                 [@ EXCEPT !.answered = TRUE,
                                           !.total = Len(sorted),
                                           !.kept = Len(unique)]]
                         ELSE passLog
           /\ ApplyEdit(unique, 0, track)
    /\ UNCHANGED <<index, editApplied>>
    /\ UNCHANGED envVars

\* Mutant of RequestRejected: the failed request is sent again.
RequestRejected_Retry ==
    /\ pc = "request"
    /\ Len(passLog) < MaxPasses
    /\ failure' = "request"
    /\ passLog' = Append(passLog, [rule |-> index, answered |-> FALSE,
                                   total |-> 0, kept |-> 0, edits |-> 0])
    /\ UNCHANGED <<pc, index, result, editLog>>
    /\ UNCHANGED passVars
    /\ UNCHANGED envVars

\* The request's promise is rejected: neither then-callback runs.
RequestRejected ==
    /\ pc = "request"
    /\ pc' = "failed"
    /\ result' = "rejected"
    /\ failure' = "request"
    /\ UNCHANGED <<index, passLog, editLog>>
    /\ UNCHANGED passVars
    /\ UNCHANGED envVars

\* Mutant of EditCompleted: the next marker is skipped.
EditCompleted_Skip(isEditApplied, track) ==
    /\ pc = "edit"
    /\ markerIndex' = markerIndex + 2
    /\ editApplied' = IF track THEN editApplied ELSE isEditApplied
    /\ passLog' = IF track
                  THEN [passLog EXCEPT ![Len(passLog)].edits = @ + 1]
                  ELSE passLog
    /\ ApplyEdit(uniqueMarkers, markerIndex + 2, track)
    /\ UNCHANGED <<index, response, markers, uniqueMarkers>>
    /\ UNCHANGED envVars

\* Mutant of EditCompleted: an edit that was not applied ends the run.
EditCompleted_AbortOnFalse(isEditApplied, track) ==
    /\ pc = "edit"
    /\ editApplied' = IF track THEN editApplied ELSE isEditApplied
    /\ passLog' = IF track
                  THEN [passLog EXCEPT ![Len(passLog)].edits = @ + 1]
                  ELSE passLog
    /\ IF isEditApplied
       THEN /\ markerIndex' = markerIndex + 1
            /\ ApplyEdit(uniqueMarkers, markerIndex + 1, track)
       ELSE /\ pc' = "failed"
            /\ result' = "rejected"
            /\ failure' = "notApplied"
            /\ UNCHANGED <<markerIndex, passEdits, editedEditor, editLog>>
    /\ UNCHANGED <<index, response, markers, uniqueMarkers>>
    /\ UNCHANGED envVars

\* The callback of editor.edit: the edit call completed with isEditApplied.
EditCompleted(isEditApplied, track) ==
    /\ pc = "edit"
    /\ markerIndex' = markerIndex + 1
    /\ editApplied' = IF track THEN editApplied ELSE isEditApplied
    /\ passLog' = IF track
                  THEN [passLog EXCEPT ![Len(passLog)].edits = @ + 1]
                  ELSE passLog
    /\ ApplyEdit(uniqueMarkers, markerIndex + 1, track)
    /\ UNCHANGED <<index, response, markers, uniqueMarkers>>
    /\ UNCHANGED envVars

\* editor.edit's promise is rejected ("TODO handle rejection").
EditRejected ==
    /\ pc = "edit"
    /\ pc' = "failed"
    /\ result' = "rejected"
    /\ failure' = "edit"
    /\ UNCHANGED <<index, passLog, editLog>>
    /\ UNCHANGED passVars
    /\ UNCHANGED envVars

\* Mutant of LoopOrAdvance: after a pass that left markers out, the markers
\* left out are filtered and applied from the batch at hand, with no request.
LoopOrAdvance_Stale(track) ==
    /\ pc = "then"
    /\ IF Len(uniqueMarkers) # Len(markers)
       THEN LET deferred == SelectSeq(markers,
                                LAMBDA m : \A i \in 1 .. Len(uniqueMarkers) :
                                                uniqueMarkers[i] # m)
                unique == Filter(deferred)
            IN  /\ markers' = deferred
                /\ uniqueMarkers' = unique
                /\ markerIndex' = 0
                /\ ApplyEdit(unique, 0, track)
                /\ UNCHANGED <<index, response, editApplied, passLog>>
       ELSE /\ ExecuteRulesInOrder(index + 1, TRUE, track)
            /\ UNCHANGED editLog
    /\ UNCHANGED envVars

\* The second then-callback: run the same rule again, or the next one.
LoopOrAdvance(track) ==
    /\ pc = "then"
    /\ ExecuteRulesInOrder(NextIndex(index, uniqueMarkers, markers), TRUE, track)
    /\ UNCHANGED editLog
    /\ UNCHANGED envVars

----------------------------------------------------------------------------
(* Specifications *)

Next ==
    \/ \E c \in {"null", "client"} : SetLanguageClient(c)
    \/ \E e \in {"doc", "other", "none"} : SwitchEditor(e)
    \/ ProvideDocumentFormattingEdits(TRUE)
    \/ \E batch \in Batches : Response(batch, TRUE)
    \/ RequestRejected
    \/ \E a \in BOOLEAN : EditCompleted(a, TRUE)
    \/ EditRejected
    \/ LoopOrAdvance(TRUE)

Spec == Init /\ [][Next]_vars

\* The same steps without the history and so without its bound, with the
\* scheduling of the promise callbacks: a pending request or edit call
\* completes, and a scheduled callback runs.
LiveNext ==
    \/ \E c \in {"null", "client"} : SetLanguageClient(c)
    \/ \E e \in {"doc", "other", "none"} : SwitchEditor(e)
    \/ Cancel
    \/ ProvideDocumentFormattingEdits(FALSE)
    \/ \E batch \in Batches : Response(batch, FALSE)
    \/ RequestRejected
    \/ \E a \in BOOLEAN : EditCompleted(a, FALSE)
    \/ EditRejected
    \/ LoopOrAdvance(FALSE)

LiveSpec ==
    /\ Init
    /\ [][LiveNext]_vars
    /\ WF_vars(\E batch \in Batches : Response(batch, FALSE))
    /\ WF_vars(\E a \in BOOLEAN : EditCompleted(a, FALSE))
    /\ WF_vars(LoopOrAdvance(FALSE))

\* The steps of LiveNext with batches whose regions may span lines.
RegionNext ==
    \/ \E c \in {"null", "client"} : SetLanguageClient(c)
    \/ \E e \in {"doc", "other", "none"} : SwitchEditor(e)
    \/ Cancel
    \/ ProvideDocumentFormattingEdits(FALSE)
    \/ \E batch \in RegionBatches : Response(batch, FALSE)
    \/ RequestRejected
    \/ \E a \in BOOLEAN : EditCompleted(a, FALSE)
    \/ EditRejected
    \/ LoopOrAdvance(FALSE)

RegionSpec == Init /\ [][RegionNext]_vars

----------------------------------------------------------------------------
(* Claims *)

NumRules == Len(ruleOrder)

\* The starting lines of a marker sequence.
LinesOf(ms) == [i \in 1 .. Len(ms) |-> ms[i].startLineNumber]

\* C1: with undo aggregation enabled, over a whole run undoStopBefore is true
\* on the first edit of the run and on no other, and undoStopAfter is true on
\* the last edit of the run and on no other.
C1_UndoGroupSpansRun ==
    aggregateUndoStop =>
        /\ \A i \in 1 .. Len(editLog) : editLog[i].undoStopBefore <=> (i = 1)
        /\ \A i \in 1 .. Len(editLog) - 1 : ~editLog[i].undoStopAfter
        /\ (pc = "done" /\ editLog # <<>>) => editLog[Len(editLog)].undoStopAfter

\* C2: the requests of a run go through the rules in the declared order: the
\* first is for rule 0, each later one is for the same rule or the next, a
\* request is issued only when every edit of the pass before it has completed,
\* and a request for the same rule follows only a pass that kept strictly
\* fewer markers than the service returned.
C2_RulesInOrder ==
    /\ passLog # <<>> => passLog[1].rule = 0
    /\ \A k \in 1 .. Len(passLog) - 1 :
          /\ passLog[k].answered
          /\ passLog[k].edits = passLog[k].kept
          /\ passLog[k + 1].rule \in {passLog[k].rule, passLog[k].rule + 1}
          /\ passLog[k + 1].rule = passLog[k].rule
                => passLog[k].kept < passLog[k].total
    /\ \A k \in 1 .. Len(passLog) : passLog[k].rule < NumRules
    /\ (pc \in {"request", "edit", "then"}) =>
            /\ passLog # <<>>
            /\ passLog[Len(passLog)].rule = index

\* C2 witness: rule 0 was run twice after a collision, then rule 1 requested.
C2_Witness ==
    /\ Len(passLog) = 3
    /\ passLog[1].rule = 0 /\ passLog[1].kept < passLog[1].total
    /\ passLog[2].rule = 0 /\ passLog[2].kept = passLog[2].total
    /\ passLog[2].kept > 0
    /\ passLog[3].rule = 1

\* C4: a format-document call made while no connection is available (the
\* field never set, or set to null) returns an edit result holding no edit,
\* issues no marker request, applies no edit, and does not fail.
C4_NoConnectionNoOp ==
    [][(pc = "idle" /\ pc' # "idle" /\ languageClient \in {"undefined", "null"})
            => /\ pc' = "done"
               /\ result' \in {EmptyList, TextEdit0}
               /\ passLog' = <<>>
               /\ editLog' = <<>>]_vars

\* At most one kept marker per starting line.
OnePerLine(ms) ==
    \A i, j \in 1 .. Len(ms) :
        ms[i].startLineNumber = ms[j].startLineNumber => i = j

\* C5: the kept subset holds at most one marker per starting line, every kept
\* marker is a marker of the returned batch, and the kept subset is no longer
\* than the batch.
C5_KeptOnePerLine ==
    /\ OnePerLine(uniqueMarkers)
    /\ \A i \in 1 .. Len(uniqueMarkers) :
          \E j \in 1 .. Len(response) : uniqueMarkers[i] = response[j]
    /\ Len(uniqueMarkers) <= Len(response)

\* C5 witness: a batch of three markers on two lines, two of them kept.
C5_Witness ==
    /\ Len(response) = 3
    /\ Len(uniqueMarkers) = 2
    /\ LinesOf(response) = <<1, 2, 1>>

\* C6: the kept subset is ordered strictly descending by starting line.
C6_KeptStrictlyDescending ==
    \A i \in 1 .. Len(uniqueMarkers) - 1 :
        uniqueMarkers[i].startLineNumber > uniqueMarkers[i + 1].startLineNumber

\* C6 witness: markers returned in ascending order, both kept.
C6_Witness ==
    /\ LinesOf(response) = <<1, 2>>
    /\ Len(uniqueMarkers) = 2

\* C7: the value handed back to the caller of the format operation is the
\* empty edit list whenever the run ends by returning, at the end of the rule
\* list or for want of a connection.
C7_ReturnsEmptyList ==
    pc = "done" => result = EmptyList

\* C3, as claimed: a run that has a request pending always comes to its end
\* at index = Len(ruleOrder), whatever batches the service returns, unless a
\* request or an edit call fails or the connection is withdrawn (a run the
\* claim does not speak of).
C3_AlwaysCompletes ==
    (pc = "request") ~>
        \/ pc = "done" /\ index = NumRules
        \/ pc = "done" /\ languageClient = "null"
        \/ pc = "failed"

\* The pass in progress kept fewer markers than the service returned.
Colliding == pc = "edit" /\ Len(uniqueMarkers) < Len(markers)

\* C3, amended: a run that has a request pending comes to its end, or to a
\* pass with a same-line collision: a run goes on forever only by meeting
\* collisions forever, and after its last collision it ends at
\* index = Len(ruleOrder) (or on a failure or a withdrawn connection).
C3_CompletesUnlessColliding ==
    (pc = "request") ~>
        \/ pc = "done" /\ index = NumRules
        \/ pc = "done" /\ languageClient = "null"
        \/ pc = "failed"
        \/ Colliding

\* C3 witness: the run ended at the end of the rule list, the last pass
\* having applied an edit.
C3_Witness ==
    /\ pc = "done"
    /\ index = NumRules
    /\ languageClient = "client"
    /\ Len(passEdits) > 0

\* C8: when a marker request is rejected the caller's promise is rejected
\* and the run has stopped: from then on no request is issued (the failed
\* one is not sent again, no later rule is asked for) and no edit is issued.
C8_RequestFailureStopsRun ==
    [][/\ failure' = "request" => (pc' = "failed" /\ result' = "rejected")
       /\ failure = "request" =>
            /\ passLog' = passLog
            /\ editLog' = editLog
            /\ passEdits' = passEdits
            /\ index' = index]_vars

\* C8 witness: the second request, for rule 0 again, was rejected after an
\* edit of the first pass had been applied.
C8_Witness ==
    /\ failure = "request"
    /\ Len(passLog) = 2
    /\ ~passLog[2].answered
    /\ Len(editLog) = 1
    /\ index = 0

\* C9: a run that ended at the end of the rule list and in which every batch
\* held exactly one marker issued exactly three requests, for rules 0, 1, 2,
\* and exactly three edits, the first alone with undoStopBefore and the third
\* alone with undoStopAfter.
C9_OneMarkerPerRule ==
    (/\ pc = "done"
     /\ index = NumRules
     /\ \A k \in 1 .. Len(passLog) : passLog[k].total = 1)
    => /\ [k \in 1 .. Len(passLog) |-> passLog[k].rule] = <<0, 1, 2>>
       /\ Len(editLog) = 3
       /\ [k \in 1 .. 3 |-> editLog[k].rule] = <<0, 1, 2>>
       /\ [k \in 1 .. 3 |-> editLog[k].undoStopBefore] = <<TRUE, FALSE, FALSE>>
       /\ [k \in 1 .. 3 |-> editLog[k].undoStopAfter] = <<FALSE, FALSE, TRUE>>

\* C9 witness: such a run.
C9_Witness ==
    /\ pc = "done"
    /\ index = NumRules
    /\ Len(passLog) = 3
    /\ \A k \in 1 .. Len(passLog) : passLog[k].total = 1

\* The marker of the returned batch that came first among those of its line.
FirstOfLine(m) ==
    \A j \in 1 .. Len(response) :
        response[j].startLineNumber = m.startLineNumber => m.id <= response[j].id

KeptAreFirst ==
    \A i \in 1 .. Len(uniqueMarkers) : FirstOfLine(uniqueMarkers[i])

AppliedAreFirst ==
    \A i \in 1 .. Len(passEdits) : FirstOfLine(passEdits[i])

\* C10: of the markers of a batch that share a starting line the kept one is
\* the one the service returned first, the edits issued in the pass are those
\* of kept markers only, and, the connection being there, the callback after
\* a pass that left markers out issues a request for the same rule.
C10_FirstOfLineKept ==
    [][/\ KeptAreFirst'
       /\ AppliedAreFirst'
       /\ (/\ pc = "then"
           /\ Len(uniqueMarkers) # Len(markers)
           /\ languageClient = "client")
          => (pc' = "request" /\ index' = index)]_vars

\* C10 witness: lines 2, 2, 1 returned; the first marker of line 2 and the
\* marker of line 1 were kept and applied, the second of line 2 left out.
C10_Witness ==
    /\ pc = "then"
    /\ LinesOf(response) = <<2, 2, 1>>
    /\ uniqueMarkers = <<response[1], response[3]>>
    /\ passEdits = uniqueMarkers
    /\ languageClient = "client"

\* C11: when the service returns an empty batch no edit is issued in the
\* pass, and the callback after the pass moves to index + 1: it issues the
\* request for the next rule, or ends the run (at the last rule, or for want
\* of a connection); the same rule is not requested again.
C11_EmptyBatchAdvances ==
    [][/\ (pc = "request" /\ pc' = "then" /\ response' = <<>>)
            => (uniqueMarkers' = <<>> /\ passEdits' = <<>>)
       /\ (pc = "then" /\ response = <<>>)
            => /\ index' = index + 1
               /\ pc' \in {"request", "done"}
               /\ languageClient = "client"
                    => (pc' = "request" <=> index + 1 < NumRules)]_vars

\* C11 witness: rule 1 was answered with an empty batch.
C11_Witness ==
    /\ pc = "then"
    /\ index = 1
    /\ response = <<>>
    /\ languageClient = "client"

\* C13: sorting and filtering the kept subset again gives the kept subset,
\* markers and order unchanged, so that batch would not be run again.
C13_Idempotent ==
    /\ Filter(Sort(uniqueMarkers)) = uniqueMarkers
    /\ NextIndex(index, Filter(Sort(uniqueMarkers)), Sort(uniqueMarkers)) = index + 1

\* C13 witness: a kept subset of two markers out of a batch of three.
C13_Witness ==
    /\ Len(uniqueMarkers) = 2
    /\ LinesOf(response) = <<1, 1, 2>>

\* C15: in a pass the edits issued are the kept markers, each once and in
\* kept order; a new edit is issued only when the one before has completed
\* (one more issued than completed while an edit call is pending, as many
\* when the pass is over), and none is pending while a request is.
C15_AppliesKeptInOrder ==
    /\ Len(passEdits) <= Len(uniqueMarkers)
    /\ passEdits = SubSeq(uniqueMarkers, 1, Len(passEdits))
    /\ pc = "edit" => Len(passEdits) = markerIndex + 1
    /\ pc = "then" => (passEdits = uniqueMarkers /\ markerIndex = Len(uniqueMarkers))
    /\ pc = "request" => passEdits = <<>>

\* C15 witness: a pass of two kept markers, both applied, one marker left out.
C15_Witness ==
    /\ pc = "then"
    /\ Len(passEdits) = 2
    /\ Len(markers) = 3

\* Two markers of the returned batch share a starting line.
SameLineCollision ==
    \E i, j \in 1 .. Len(response) :
        i # j /\ response[i].startLineNumber = response[j].startLineNumber

\* The starting lines that occur in a marker sequence.
LineSet(ms) == {ms[i].startLineNumber : i \in 1 .. Len(ms)}

\* The kept subset has exactly one marker of every starting line of the
\* batch, and is shorter than the batch exactly when two markers share a line.
KeptMaximal ==
    /\ LineSet(uniqueMarkers) = LineSet(response)
    /\ Len(uniqueMarkers) = Cardinality(LineSet(response))
    /\ Len(uniqueMarkers) # Len(markers) <=> SameLineCollision

\* C16: the kept subset is maximal in that sense, and the callback after the
\* pass runs the same rule again exactly when two markers of the batch share
\* a starting line.
C16_KeptMaximal ==
    [][/\ KeptMaximal'
       /\ (pc = "then" /\ pc' \in {"request", "done"})
            => (index' = index <=> SameLineCollision)]_vars

\* C16 witness: the same rule requested again after a batch with a collision
\* on line 1 and a lone marker on line 2.
C16_Witness ==
    /\ pc = "then"
    /\ LinesOf(response) = <<1, 2, 1>>
    /\ LinesOf(uniqueMarkers) = <<2, 1>>

\* A marker is one of the batch the service returned last.
InResponse(m) == \E j \in 1 .. Len(response) : response[j] = m

LastEditInResponse ==
    passEdits # <<>> => InResponse(passEdits[Len(passEdits)])

\* C17: an edit is issued only for a marker of the batch the last request
\* returned; a batch arrives only as the answer to a pending request; after a
\* pass the callback issues a fresh request or ends the run, it never applies
\* markers of the batch at hand, and the request starts the pass with nothing
\* carried over.
C17_EditsFromFreshBatch ==
    [][/\ (passEdits' # passEdits /\ passEdits' # <<>>)
            => /\ pc \in {"request", "edit"}
               /\ LastEditInResponse'
               /\ pc = "edit" => response' = response
       /\ (response' # response /\ response' # <<>>) => pc = "request"
       /\ pc = "then"
            => /\ pc' \in {"request", "done", "failed"}
               /\ passEdits' \in {passEdits, <<>>}
       /\ (pc' = "request" /\ pc # "request")
            => /\ pc \in {"idle", "then"}
               /\ response' = <<>>
               /\ markers' = <<>>
               /\ uniqueMarkers' = <<>>
               /\ passEdits' = <<>>]_vars

\* C17 witness: the second pass of rule 0 applying a marker of its own batch
\* after the first pass left one out.
C17_Witness ==
    /\ pc = "edit"
    /\ Len(passLog) = 2
    /\ passLog[1].kept < passLog[1].total
    /\ passLog[2].rule = 0
    /\ Len(passEdits) = 1

\* C12: once the token is cancelled no further marker request is issued.
C12_NoRequestAfterCancel ==
    [][cancelled => ~(pc' = "request" /\ pc # "request")]_vars

\* Position p lies before position q in the document.
Before(p, q) ==
    p.line < q.line \/ (p.line = q.line /\ p.character < q.character)

\* C14: when an edit is applied, no edit applied earlier in the pass has
\* changed the text or the numbering of the span it replaces: the span ends
\* at or before the start of every span replaced earlier in the pass.
C14_EarlierEditsLeaveSpanIntact ==
    \A i, j \in 1 .. Len(passEdits) :
        i < j => ~Before(Range(passEdits[i]).start, Range(passEdits[j]).end)

\* C18: every edit call of a run is made on the editor of the document that
\* was passed to the format operation.
C18_EditsFormattedDocument ==
    editedEditor \in {"none", "doc"}

\* A step that is the callback of a completed edit call.
EditCallbackStep ==
    /\ pc = "edit"
    /\ failure' # "edit"
    /\ <<pc, markerIndex, passEdits>>' # <<pc, markerIndex, passEdits>>

\* C19: when an edit call completes with false the pass goes on as it does
\* after true: the edit is not issued again, the next kept marker is (an
\* editor being active), after the last one the pass is over; and the callback
\* after the pass picks the index by the two lengths alone.
C19_UnappliedEditIgnored ==
    [][/\ (EditCallbackStep /\ ~editApplied')
            => /\ markerIndex' = markerIndex + 1
               /\ uniqueMarkers' = uniqueMarkers
               /\ index' = index
               /\ markerIndex + 1 >= Len(uniqueMarkers)
                    => (pc' = "then" /\ passEdits' = passEdits)
               /\ (markerIndex + 1 < Len(uniqueMarkers) /\ activeTextEditor # "none")
                    => /\ pc' = "edit"
                       /\ passEdits' = Append(passEdits, uniqueMarkers[markerIndex + 2])
       /\ (pc = "then" /\ pc' \in {"request", "done"})
            => index' = IF Len(uniqueMarkers) = Len(markers) THEN index + 1 ELSE index]_vars

\* C19 witness: the first edit of a pass completed with false and the second
\* kept marker's edit was issued.
C19_Witness ==
    /\ pc = "edit"
    /\ ~editApplied
    /\ markerIndex = 1
    /\ Len(passEdits) = 2

====
